---- MODULE Spec2Model ----
(***************************************************************************)
(* Model of arrays_util.h: a single-header library of operations over a   *)
(* caller-owned int buffer.  Arrays are functions over 0..n-1 so that the  *)
(* source's indices are kept.  Every library function is an operator that  *)
(* follows the loops of the source; every action is one call of a         *)
(* function by the caller on the buffer `arr`.                             *)
(***************************************************************************)
EXTENDS Integers, FiniteSets, TLC

\* ---------------------------------------------------------------- bounds
MaxLen == 5        \* longest caller buffer
MaxVal == 2        \* cell values are 0..MaxVal
MaxK == 6          \* largest rotation count passed to rotate
MaxLen1 == 3       \* longest first operand of concat
MaxLen2 == 2       \* longest second operand of concat
MaxCatVal == 1     \* cell values of the operands of concat are 0..MaxCatVal
MaxHashLen == 9    \* longest buffer passed to hashCode

Vals == 0..MaxVal

CatVals == 0..MaxCatVal

VARIABLES
    arr,        \* the caller's buffer after the last call
    pre,        \* the caller's buffer before the last call
    op,         \* name (as in the Arrays table) of the last call
    args,       \* the scalar arguments of the last call
    ret,        \* the int / bool returned by the last call
    new_array,  \* the buffer allocated and returned by the last call
    Pivot,      \* struct record filled by pivotPartition
    hash,       \* unsigned long long returned by hashCode (four 16-bit limbs)
    repeated,   \* TRUE when the last call repeats the call before it
    alloc       \* size in bytes that the last call asked of malloc (0: none)

vars == <<arr, pre, op, args, ret, new_array, Pivot, hash, repeated, alloc>>

\* ---------------------------------------------------------------- arrays
Len(a) == Cardinality(DOMAIN a)

IntArrays(n, S) == [0..(n - 1) -> S]

EmptyArray == [i \in {} |-> 0]

\* struct record { int left; int right; } as initialised by dualPivotQuickSort
NoPivot == [left |-> -1, right |-> -1]

\* ---------------------------------------------------------------- rotate
RECURSIVE rotateShift(_, _, _)
\* for (j = 0; j < n - 1; ++j) arr[j] = arr[j + 1];
rotateShift(a, n, j) ==
    IF j < n - 1 THEN rotateShift([a EXCEPT ![j] = a[j + 1]], n, j + 1)
    ELSE a

RECURSIVE rotateLoop(_, _, _, _)
\* for (i = 0; i < k; ++i) { temp = arr[0]; shift; arr[n - 1] = temp; }
rotateLoop(a, n, k, i) ==
    IF i < k
    THEN LET temp == a[0]
             shifted == rotateShift(a, n, 0)
         IN rotateLoop([shifted EXCEPT ![n - 1] = temp], n, k, i + 1)
    ELSE a

rotate(a, n, k) == rotateLoop(a, n, k % n, 0)

\* ---------------------------------------------------------------- searchBIN
RECURSIVE searchBINLoop(_, _, _, _, _, _)
\* while (start < end && index != mid) { ... }
searchBINLoop(a, sr, start, end, mid, index) ==
    IF start < end /\ index # mid
    THEN LET m == (start + end) \div 2
         IN IF a[m] = sr THEN searchBINLoop(a, sr, start, end, m, m)
            ELSE IF a[m] < sr THEN searchBINLoop(a, sr, m + 1, end, m, index)
            ELSE searchBINLoop(a, sr, start, m - 1, m, index)
    ELSE index

\* `mid` is declared without an initialiser and read by the first loop test:
\* mid0 is whatever the stack held.
searchBIN(a, n, sr, mid0) == searchBINLoop(a, sr, 0, n, mid0, -1)

\* ---------------------------------------------------------------- reverse
RECURSIVE reverseLoop(_, _, _)
reverseLoop(a, n, i) ==
    IF i < n \div 2
    THEN LET temp == a[i]
             a1 == [a EXCEPT ![i] = a[n - i - 1]]
         IN reverseLoop([a1 EXCEPT ![n - i - 1] = temp], n, i + 1)
    ELSE a

RECURSIVE reverseLostTempLoop(_, _, _)
reverseLostTempLoop(a, n, i) ==
    IF i < n \div 2
    THEN LET a1 == [a EXCEPT ![i] = a[n - i - 1]]
         IN reverseLostTempLoop([a1 EXCEPT ![n - i - 1] = a1[i]], n, i + 1)
    ELSE a

\* reverse without the temporary: the second store reads the overwritten cell
reverseLostTemp(a, n) == reverseLostTempLoop(a, n, 0)

reverse(a, n) == reverseLoop(a, n, 0)

\* ---------------------------------------------------------------- MAX_count
RECURSIVE MAX_countLoop(_, _, _, _, _)
\* `maximum` is never reassigned in the loop
MAX_countLoop(a, n, maximum, count, i) ==
    IF i < n
    THEN IF a[i] > maximum THEN MAX_countLoop(a, n, maximum, 1, i + 1)
         ELSE IF a[i] = maximum THEN MAX_countLoop(a, n, maximum, count + 1, i + 1)
         ELSE MAX_countLoop(a, n, maximum, count, i + 1)
    ELSE count

MAX_count(a, n) == MAX_countLoop(a, n, a[0], 0, 1)

\* ---------------------------------------------------------------- sort
swapNumbers(a, index1, index2) ==
    LET temp == a[index1]
        a1 == [a EXCEPT ![index1] = a[index2]]
    IN [a1 EXCEPT ![index2] = temp]

RECURSIVE pivotPartitionScan(_, _, _, _, _, _)
\* while (iterator <= rightPivot) { ... }
pivotPartitionScan(a, low, high, leftPivot, rightPivot, iterator) ==
    IF iterator <= rightPivot
    THEN IF a[iterator] < a[low]
         THEN pivotPartitionScan(swapNumbers(a, iterator, leftPivot), low, high,
                                 leftPivot + 1, rightPivot, iterator + 1)
         ELSE IF a[iterator] > a[high]
         THEN pivotPartitionScan(swapNumbers(a, iterator, rightPivot), low, high,
                                 leftPivot, rightPivot - 1, iterator)
         ELSE pivotPartitionScan(a, low, high, leftPivot, rightPivot, iterator + 1)
    ELSE [arr |-> a, leftPivot |-> leftPivot, rightPivot |-> rightPivot]

\* pivotPartition without the initial ordering of the two pivots
pivotPartitionNoOrder(a, low, high) ==
    LET s == pivotPartitionScan(a, low, high, low + 1, high - 1, low + 1)
        leftPivot == s.leftPivot - 1
        a1 == swapNumbers(s.arr, low, leftPivot)
        rightPivot == s.rightPivot + 1
        a2 == swapNumbers(a1, high, rightPivot)
    IN [arr |-> a2, left |-> leftPivot, right |-> rightPivot]

\* pivotPartition placing the left pivot at leftPivot instead of --leftPivot
pivotPartitionNoDecrement(a, low, high) ==
    LET a0 == IF a[low] > a[high] THEN swapNumbers(a, low, high) ELSE a
        s == pivotPartitionScan(a0, low, high, low + 1, high - 1, low + 1)
        leftPivot == s.leftPivot
        a1 == swapNumbers(s.arr, low, leftPivot)
        rightPivot == s.rightPivot + 1
        a2 == swapNumbers(a1, high, rightPivot)
    IN [arr |-> a2, left |-> leftPivot, right |-> rightPivot]

\* the result is the array and the two fields written through `pivot`
pivotPartition(a, low, high) ==
    LET a0 == IF a[low] > a[high] THEN swapNumbers(a, low, high) ELSE a
        s == pivotPartitionScan(a0, low, high, low + 1, high - 1, low + 1)
        leftPivot == s.leftPivot - 1
        a1 == swapNumbers(s.arr, low, leftPivot)
        rightPivot == s.rightPivot + 1
        a2 == swapNumbers(a1, high, rightPivot)
    IN [arr |-> a2, left |-> leftPivot, right |-> rightPivot]

RECURSIVE dualPivotQuickSort(_, _, _)
dualPivotQuickSort(a, low, high) ==
    IF low >= high THEN a
    ELSE LET p == pivotPartition(a, low, high)
             s1 == dualPivotQuickSort(p.arr, low, p.left - 1)
             s2 == dualPivotQuickSort(s1, p.left + 1, p.right - 1)
         IN dualPivotQuickSort(s2, p.right + 1, high)

\* ---------------------------------------------------------------- sum
RECURSIVE sumLoop(_, _, _, _)
sumLoop(a, n, sum, i) ==
    IF i < n THEN sumLoop(a, n, sum + a[i], i + 1) ELSE sum

\* the accumulated sum is computed and dropped: `return 0;`
sumAllElements(a, n) ==
    LET sum == sumLoop(a, n, 0, 0) IN 0

\* ---------------------------------------------------------------- isSorted
RECURSIVE checkForSortLoop(_, _, _)
checkForSortLoop(a, n, i) ==
    IF i < n
    THEN IF a[i] < a[i - 1] THEN FALSE ELSE checkForSortLoop(a, n, i + 1)
    ELSE TRUE

RECURSIVE checkForSortStrictLoop(_, _, _)
checkForSortStrictLoop(a, n, i) ==
    IF i < n
    THEN IF a[i] <= a[i - 1] THEN FALSE ELSE checkForSortStrictLoop(a, n, i + 1)
    ELSE TRUE

\* checkForSort rejecting equal neighbours
checkForSortStrict(a, n) == checkForSortStrictLoop(a, n, 1)

checkForSort(a, n) == checkForSortLoop(a, n, 1)

\* ---------------------------------------------------------------- copyOfRange
\* sizeof(int)
SizeofInt == 4

\* the store `ret_arr[i] = ...` covers bytes [i * sizeof(int), (i + 1) * sizeof(int))
\* of a block of `bytes` bytes
storeInside(bytes, i) == (i + 1) * SizeofInt <= bytes

RECURSIVE copyOfRangeLoop(_, _, _, _, _, _, _)
\* for (i = 0, j = start; i < end - start; ++i, ++j) ret_arr[i] = arr[j];
\* a store outside the block is undefined: the cell read back later holds
\* either the value stored or whatever the owner of that memory left there
copyOfRangeLoop(r, a, count, bytes, i, j, outside) ==
    IF i < count
    THEN LET cell == IF storeInside(bytes, i) \/ outside.stored THEN a[j]
                     ELSE outside.garbage
         IN copyOfRangeLoop([r EXCEPT ![i] = cell], a, count, bytes, i + 1, j + 1, outside)
    ELSE r

\* malloc(end - start) asks for end - start bytes
copyOfRange(a, start, end, outside) ==
    LET bytes == end - start
        r0 == [i \in 0..(end - start - 1) |-> outside.garbage]
    IN [bytes |-> bytes,
        buf |-> copyOfRangeLoop(r0, a, end - start, bytes, 0, start, outside)]

\* ---------------------------------------------------------------- concat
\* malloc((size1 + size2) * sizeof(int)): size1 + size2 cells holding garbage
mallocInts(count, garbage) == [i \in 0..(count - 1) |-> garbage]

RECURSIVE concatBoth(_, _, _, _, _, _)
\* for (; i < size1 && i < size2; i++) { ... } ; yields the buffer and i
concatBoth(r, arr1, size1, arr2V, size2, i) ==
    IF i < size1 /\ i < size2
    THEN LET r1 == [r EXCEPT ![i] = arr1[i]]
         IN concatBoth([r1 EXCEPT ![size1 + i] = arr2V[i]], arr1, size1, arr2V, size2, i + 1)
    ELSE [buf |-> r, i |-> i]

RECURSIVE concatTail1(_, _, _, _)
\* while (i < size1) { new_array[i] = arr1[i]; i++; }
concatTail1(r, arr1, size1, i) ==
    IF i < size1 THEN concatTail1([r EXCEPT ![i] = arr1[i]], arr1, size1, i + 1)
    ELSE [buf |-> r, i |-> i]

RECURSIVE concatTail2(_, _, _, _, _)
\* while (i < size2) { new_array[size1 + i] = arr2[i]; i++; }
concatTail2(r, size1, arr2V, size2, i) ==
    IF i < size2
    THEN concatTail2([r EXCEPT ![size1 + i] = arr2V[i]], size1, arr2V, size2, i + 1)
    ELSE r

RECURSIVE concatTail2NoOffset(_, _, _, _, _)
concatTail2NoOffset(r, size1, arr2V, size2, i) ==
    IF i < size2
    THEN concatTail2NoOffset([r EXCEPT ![i] = arr2V[i]], size1, arr2V, size2, i + 1)
    ELSE r

\* concat whose last loop stores at new_array[i] instead of new_array[size1 + i]
concatenateTwoArraysNoOffset(arr1, size1, arr2V, size2, garbage) ==
    LET r0 == mallocInts(size1 + size2, garbage)
        s1 == concatBoth(r0, arr1, size1, arr2V, size2, 0)
        s2 == concatTail1(s1.buf, arr1, size1, s1.i)
    IN concatTail2NoOffset(s2.buf, size1, arr2V, size2, s2.i)

concatenateTwoArrays(arr1, size1, arr2V, size2, garbage) ==
    LET r0 == mallocInts(size1 + size2, garbage)
        s1 == concatBoth(r0, arr1, size1, arr2V, size2, 0)
        s2 == concatTail1(s1.buf, arr1, size1, s1.i)
    IN concatTail2(s2.buf, size1, arr2V, size2, s2.i)

\* ---------------------------------------------------------------- hashCode
\* int is 32 bits wide, unsigned long long 64 bits; a 64-bit value is kept as
\* four 16-bit limbs, least significant first, so that no intermediate value
\* leaves the range of the checker's integers.
Limb == 65536

IntMax == 2147483647

IntMin == -IntMax - 1

RECURSIVE xor16(_, _, _)
\* bitwise exclusive or of the low `bits` bits of two bit patterns
xor16(x, y, bits) ==
    IF bits = 0 THEN 0
    ELSE ((x + y) % 2) + 2 * xor16(x \div 2, y \div 2, bits - 1)

\* the 32-bit pattern of an int as two 16-bit halves (two's complement)
lowHalf(v) == v % Limb

highHalf(v) == (v \div Limb) % Limb

\* the int whose 32-bit pattern has the given halves
fromHalves(hi, lo) == (IF hi >= 32768 THEN hi - Limb ELSE hi) * Limb + lo

\* val >> 31 on an int: arithmetic shift, 0 or -1
shiftRight31(v) == (v \div Limb) \div 32768

\* val ^ (val >> 31) on ints
xorInt(v, w) ==
    fromHalves(xor16(highHalf(v), highHalf(w), 16), xor16(lowHalf(v), lowHalf(w), 16))

\* conversion of an int operand to unsigned long long (sign extension)
toULL(v) ==
    <<lowHalf(v), highHalf(v),
      IF v < 0 THEN Limb - 1 ELSE 0, IF v < 0 THEN Limb - 1 ELSE 0>>

\* h * m + v on unsigned long long: the carry out of the top limb is dropped
mulAddULL(h, m, v) ==
    LET t1 == h[1] * m + v[1]
        t2 == h[2] * m + v[2] + (t1 \div Limb)
        t3 == h[3] * m + v[3] + (t2 \div Limb)
        t4 == h[4] * m + v[4] + (t3 \div Limb)
    IN <<t1 % Limb, t2 % Limb, t3 % Limb, t4 % Limb>>

\* cell values of the buffers passed to hashCode
HashVals == {IntMin, -7, IntMax}

\* `val = val ^ (val >> 31)` for every cell value, evaluated once
foldSign == [v \in HashVals |-> xorInt(v, shiftRight31(v))]

RECURSIVE getHashCodeLoop(_, _, _, _)
getHashCodeLoop(a, n, h, i) ==
    IF i < n
    THEN LET val == foldSign[a[i]]
         IN getHashCodeLoop(a, n, mulAddULL(h, 19, toULL(val)), i + 1)
    ELSE h

RECURSIVE getHashCodeNoFoldLoop(_, _, _, _)
getHashCodeNoFoldLoop(a, n, h, i) ==
    IF i < n
    THEN getHashCodeNoFoldLoop(a, n, mulAddULL(h, 19, toULL(a[i])), i + 1)
    ELSE h

\* hashCode without the `val ^ (val >> 31)` step
getHashCodeOfNoFold(isNull, a, n) ==
    IF isNull THEN <<0, 0, 0, 0>>
    ELSE getHashCodeNoFoldLoop(a, n, <<1, 0, 0, 0>>, 0)

\* isNull stands for `arr == NULL`
getHashCodeOf(isNull, a, n) ==
    IF isNull THEN <<0, 0, 0, 0>>
    ELSE getHashCodeLoop(a, n, <<1, 0, 0, 0>>, 0)

\* ---------------------------------------------------------------- calls
\* values an uninitialised int or an unwritten heap cell may hold: the one
\* value that `index` starts with, and another one
Garbage == {-1, 0}

NoArgs == [none |-> 0]

Init ==
    /\ arr \in UNION {IntArrays(n, Vals) : n \in 0..MaxLen}
    /\ pre = arr
    /\ op = "init"
    /\ args = NoArgs
    /\ ret = 0
    /\ new_array = EmptyArray
    /\ Pivot = NoPivot
    /\ hash = <<0, 0, 0, 0>>
    /\ repeated = FALSE
    /\ alloc = 0

\* what every call records, and the results it does not produce
Called(name, a) ==
    /\ op' = name
    /\ pre' = arr
    /\ args' = a
    /\ repeated' = (op = name)
    /\ UNCHANGED hash

\* Arrays.sort(arr, 0, n - 1)
Sort ==
    /\ arr' = dualPivotQuickSort(arr, 0, Len(arr) - 1)
    /\ Called("sort", [low |-> 0, high |-> Len(arr) - 1])
    /\ ret' = 0 /\ new_array' = EmptyArray /\ alloc' = 0 /\ Pivot' = NoPivot

\* pivotPartition(arr, low, high, &Pivot) with low < high inside the buffer
PivotPartition ==
    \E low \in DOMAIN arr, high \in DOMAIN arr :
        /\ low < high
        /\ LET p == pivotPartition(arr, low, high)
           IN /\ arr' = p.arr
              /\ Pivot' = [left |-> p.left, right |-> p.right]
        /\ Called("pivotPartition", [low |-> low, high |-> high])
        /\ ret' = 0 /\ new_array' = EmptyArray /\ alloc' = 0

\* Arrays.searchBIN(arr, n, sr)
SearchBIN ==
    \E sr \in Vals, mid0 \in Garbage :
        /\ ret' = searchBIN(arr, Len(arr), sr, mid0)
        /\ Called("searchBIN", [sr |-> sr, mid0 |-> mid0])
        /\ arr' = arr /\ new_array' = EmptyArray /\ alloc' = 0 /\ Pivot' = NoPivot

\* Arrays.rotate(arr, n, k); n = 0 divides by zero in `k % n`
Rotate ==
    \E k \in 0..MaxK :
        /\ Len(arr) >= 1
        /\ arr' = rotate(arr, Len(arr), k)
        /\ Called("rotate", [k |-> k])
        /\ ret' = 0 /\ new_array' = EmptyArray /\ alloc' = 0 /\ Pivot' = NoPivot

\* Arrays.reverse(arr, n)
Reverse ==
    /\ arr' = reverse(arr, Len(arr))
    /\ Called("reverse", NoArgs)
    /\ ret' = 0 /\ new_array' = EmptyArray /\ alloc' = 0 /\ Pivot' = NoPivot

\* Arrays.getMaxOccurrence(arr, n); n = 0 reads arr[0] outside the buffer
GetMaxOccurrence ==
    /\ Len(arr) >= 1
    /\ ret' = MAX_count(arr, Len(arr))
    /\ Called("getMaxOccurrence", NoArgs)
    /\ arr' = arr /\ new_array' = EmptyArray /\ alloc' = 0 /\ Pivot' = NoPivot

\* Arrays.sum(arr, n)
Sum ==
    /\ ret' = sumAllElements(arr, Len(arr))
    /\ Called("sum", NoArgs)
    /\ arr' = arr /\ new_array' = EmptyArray /\ alloc' = 0 /\ Pivot' = NoPivot

\* Arrays.isSorted(arr, n)
IsSorted ==
    /\ ret' = checkForSort(arr, Len(arr))
    /\ Called("isSorted", NoArgs)
    /\ arr' = arr /\ new_array' = EmptyArray /\ alloc' = 0 /\ Pivot' = NoPivot

\* Arrays.concat(arr, size1, arr2, size2)
Concat ==
    \E arr2 \in UNION {IntArrays(n, CatVals) : n \in 0..MaxLen2}, garbage \in Garbage :
        /\ new_array' = concatenateTwoArrays(arr, Len(arr), arr2, Len(arr2), garbage)
        /\ Called("concat", [arr2 |-> arr2])
        /\ alloc' = (Len(arr) + Len(arr2)) * SizeofInt
        /\ arr' = arr /\ ret' = 0 /\ Pivot' = NoPivot

\* ---- a caller that searches, rotates, reverses and aggregates
Next ==
    \/ SearchBIN
    \/ Rotate
    \/ Reverse
    \/ GetMaxOccurrence
    \/ Sum

Spec == Init /\ [][Next]_vars

\* ---- a caller that sorts, partitions and tests for order
NextSort ==
    \/ Sort
    \/ PivotPartition
    \/ IsSorted

SpecSort == Init /\ [][NextSort]_vars

\* ---- a caller that concatenates a second buffer to its own
InitConcat ==
    /\ arr \in UNION {IntArrays(n, CatVals) : n \in 0..MaxLen1}
    /\ pre = arr
    /\ op = "init"
    /\ args = NoArgs
    /\ ret = 0
    /\ new_array = EmptyArray
    /\ Pivot = NoPivot
    /\ hash = <<0, 0, 0, 0>>
    /\ repeated = FALSE
    /\ alloc = 0

NextConcat == Concat

SpecConcat == InitConcat /\ [][NextConcat]_vars

\* Arrays.copyOfRange(arr, start, end) with 0 <= start <= end <= n
CopyOfRange ==
    \E start \in 0..Len(arr), end \in 0..Len(arr), stored \in BOOLEAN, garbage \in Garbage :
        /\ start <= end
        /\ LET c == copyOfRange(arr, start, end, [stored |-> stored, garbage |-> garbage])
           IN /\ new_array' = c.buf
              /\ alloc' = c.bytes
        /\ Called("copyOfRange", [start |-> start, end |-> end])
        /\ arr' = arr /\ ret' = 0 /\ Pivot' = NoPivot

\* ---- a caller that copies ranges of its buffer
NextCopy == CopyOfRange

SpecCopy == InitConcat /\ [][NextCopy]_vars

\* ---- a caller that hashes buffers of full-width ints
InitHash ==
    /\ arr \in UNION {IntArrays(n, HashVals) : n \in 0..MaxHashLen}
    /\ pre = arr
    /\ op = "init"
    /\ args = NoArgs
    /\ ret = 0
    /\ new_array = EmptyArray
    /\ Pivot = NoPivot
    /\ hash = <<0, 0, 0, 0>>
    /\ repeated = FALSE
    /\ alloc = 0

\* Arrays.hashCode(arr, n), with arr possibly NULL
HashCode ==
    \E isNull \in BOOLEAN :
        /\ hash' = getHashCodeOf(isNull, arr, Len(arr))
        /\ op' = "hashCode"
        /\ pre' = arr
        /\ args' = [isNull |-> isNull]
        /\ repeated' = (op = "hashCode")
        /\ UNCHANGED <<arr, ret, new_array, Pivot, alloc>>

NextHash == HashCode

SpecHash == InitHash /\ [][NextHash]_vars

\* ================================================================ claims
IsAscending(a) == \A i \in DOMAIN a : i >= 1 => a[i - 1] <= a[i]

CountOf(a, v) == Cardinality({i \in DOMAIN a : a[i] = v})

RangeOf(a) == {a[i] : i \in DOMAIN a}

IsPermutation(a, b) ==
    /\ DOMAIN a = DOMAIN b
    /\ \A v \in RangeOf(a) \cup RangeOf(b) : CountOf(a, v) = CountOf(b, v)

RECURSIVE SumOf(_, _)
\* arithmetic sum of a[0..n)
SumOf(a, n) == IF n = 0 THEN 0 ELSE SumOf(a, n - 1) + a[n - 1]

MaxOf(a) == CHOOSE m \in RangeOf(a) : \A v \in RangeOf(a) : v <= m

\* C1: after sort(A, 0, n-1) the buffer is in ascending order and is a
\* permutation of its contents before the call.
Thm_C1_SortAscendingPermutation ==
    op = "sort" => IsAscending(arr) /\ IsPermutation(arr, pre)

Wit_C1_SortUnsortedWithDuplicates ==
    /\ op = "sort"
    /\ Len(pre) = 5
    /\ ~IsAscending(pre)
    /\ pre[0] > pre[4]
    /\ \E i, j \in DOMAIN pre : i # j /\ pre[i] = pre[j]
    /\ arr # pre

\* C2: on a non-empty ascending buffer that holds sr, searchBIN returns an
\* index inside the buffer whose cell equals sr.
Claim_C2_SearchBINFindsPresent ==
    (/\ op = "searchBIN"
     /\ Len(pre) >= 1
     /\ IsAscending(pre)
     /\ \E i \in DOMAIN pre : pre[i] = args.sr)
    => (ret \in DOMAIN pre /\ pre[ret] = args.sr)

\* C3: rotate(A, n, k) moves the element at index i to index (i + k) mod n.
Claim_C3_RotateRight ==
    op = "rotate" =>
        \A i \in DOMAIN pre : arr[(i + args.k) % Len(pre)] = pre[i]

\* C4: sum(A, n) returns the arithmetic sum of A[0..n).
Claim_C4_SumReturnsSum ==
    op = "sum" => ret = SumOf(pre, Len(pre))

\* C5: getMaxOccurrence(A, n) returns the number of cells equal to the
\* maximum of A.
Claim_C5_CountsMaximum ==
    op = "getMaxOccurrence" => ret = CountOf(pre, MaxOf(pre))

\* C6: isSorted(A, n) is true exactly when sorting a copy of A gives an
\* array equal to A cell by cell (so it is true for n = 0 and n = 1).
Thm_C6_IsSortedIffSortFixes ==
    op = "isSorted" =>
        /\ ret <=> (dualPivotQuickSort(pre, 0, Len(pre) - 1) = pre)
        /\ Len(pre) <= 1 => ret

Wit_C6_SortedWithEqualNeighbours ==
    /\ op = "isSorted"
    /\ ret
    /\ Len(pre) >= 3
    /\ pre[0] = pre[1]
    /\ pre[1] < pre[2]

\* C7: concat(A1, size1, A2, size2) returns a buffer of size1 + size2 cells,
\* A1 in the first size1 cells and A2 in the next size2 cells, whatever the
\* fresh buffer held, and leaves its operands as they were.
Thm_C7_ConcatIsA1ThenA2 ==
    op = "concat" =>
        LET size1 == Len(pre)
            size2 == Len(args.arr2)
        IN /\ DOMAIN new_array = 0..(size1 + size2 - 1)
           /\ \A i \in 0..(size1 - 1) : new_array[i] = pre[i]
           /\ \A j \in 0..(size2 - 1) : new_array[size1 + j] = args.arr2[j]
           /\ arr = pre

Wit_C7_ConcatShorterFirst ==
    /\ op = "concat"
    /\ Len(pre) = 1
    /\ Len(args.arr2) = 2
    /\ args.arr2[1] # pre[0]

\* C9: reversing a buffer twice gives back the buffer before the first
\* of the two calls.
Thm_C9_ReverseTwiceRestores ==
    [][(op = "reverse" /\ op' = "reverse") => arr' = pre]_vars

Wit_C9_ReversedTwice ==
    /\ op = "reverse"
    /\ repeated
    /\ Len(arr) = 5
    /\ arr[0] # arr[4]
    /\ arr[1] # arr[3]

\* C10: after pivotPartition(arr, low, high, &p) with low < high:
\* low <= p.left < p.right <= high; cells in [low, p.left) are below
\* arr[p.left]; cells in (p.left, p.right) lie between arr[p.left] and
\* arr[p.right]; cells in (p.right, high] are above arr[p.right];
\* arr[low..high] is a permutation of what it was and the other cells are
\* as they were.
Thm_C10_PartitionRegions ==
    op = "pivotPartition" =>
        LET low == args.low
            high == args.high
            l == Pivot.left
            r == Pivot.right
        IN /\ low <= l /\ l < r /\ r <= high
           /\ \A i \in low..(l - 1) : arr[i] < arr[l]
           /\ \A i \in (l + 1)..(r - 1) : arr[i] >= arr[l] /\ arr[i] <= arr[r]
           /\ \A i \in (r + 1)..high : arr[i] > arr[r]
           /\ IsPermutation(arr, pre)
           /\ \A i \in DOMAIN pre : (i < low \/ i > high) => arr[i] = pre[i]

Wit_C10_ThreeRegions ==
    /\ op = "pivotPartition"
    /\ args.low = 0
    /\ args.high = 4
    /\ Pivot.left = 1
    /\ Pivot.right = 3
    /\ arr # pre

\* ---- reference for hashCode: the value as a number written in base 256,
\* least significant digit first, `width` digits kept
RefFold(v) == IF v < 0 THEN -(v + 1) ELSE v

\* h * 19 + f digit by digit; digits beyond `width` are dropped
RefStep(h, f, width) ==
    LET t1 == h[1] * 19 + (f % 256)
        t2 == h[2] * 19 + ((f \div 256) % 256) + (t1 \div 256)
        t3 == h[3] * 19 + ((f \div 65536) % 256) + (t2 \div 256)
        t4 == h[4] * 19 + ((f \div 16777216) % 256) + (t3 \div 256)
        t5 == h[5] * 19 + (t4 \div 256)
        t6 == h[6] * 19 + (t5 \div 256)
        t7 == h[7] * 19 + (t6 \div 256)
        t8 == h[8] * 19 + (t7 \div 256)
        t9 == h[9] * 19 + (t8 \div 256)
        t10 == h[10] * 19 + (t9 \div 256)
        t11 == h[11] * 19 + (t10 \div 256)
        keep(k, t) == IF k <= width THEN t % 256 ELSE 0
    IN <<t1 % 256, t2 % 256, t3 % 256, t4 % 256, t5 % 256, t6 % 256, t7 % 256,
         t8 % 256, keep(9, t9), keep(10, t10), keep(11, t11)>>

RECURSIVE RefHash(_, _, _)
RefHash(a, n, width) ==
    IF n = 0 THEN <<1, 0, 0, 0, 0, 0, 0, 0, 0, 0, 0>>
    ELSE RefStep(RefHash(a, n - 1, width), RefFold(a[n - 1]), width)

\* C8: hashCode of a non-null buffer is h after h = 1 and, cell by cell in
\* index order, h = (h * 19 + (v xor (v >> 31))) mod 2^64, where v xor
\* (v >> 31) is v for v >= 0 and -v - 1 for v < 0; it is 1 for n = 0.
Thm_C8_HashCodeIsRollingHash ==
    (op = "hashCode" /\ ~args.isNull) =>
        LET r == RefHash(pre, Len(pre), 8)
        IN /\ \A j \in 1..4 : hash[j] = r[2 * j - 1] + 256 * r[2 * j]
           /\ Len(pre) = 0 => hash = <<1, 0, 0, 0>>

\* a negative cell is folded and the unreduced value has passed 2^64
Wit_C8_HashWrapsWithNegative ==
    /\ op = "hashCode"
    /\ ~args.isNull
    /\ \E i \in DOMAIN pre : pre[i] < 0 /\ pre[i] # IntMin
    /\ \E i \in DOMAIN pre : pre[i] = IntMin
    /\ LET wide == RefHash(pre, Len(pre), 11)
       IN wide[9] # 0 \/ wide[10] # 0 \/ wide[11] # 0

\* C11: copyOfRange(arr, start, end) asks malloc for room for end - start
\* ints of 4 bytes, so every store ret_arr[i], i in [0, end - start), lies
\* inside the block, and the returned buffer holds arr[start..end) in order.
Claim_C11_CopyOfRangeFitsBlock ==
    op = "copyOfRange" =>
        LET count == args.end - args.start
        IN /\ alloc >= count * 4
           /\ \A i \in 0..(count - 1) : i * 4 + 4 <= alloc
           /\ DOMAIN new_array = 0..(count - 1)
           /\ \A i \in 0..(count - 1) : new_array[i] = pre[args.start + i]

====
